---- MODULE Spec2Model ----
(***************************************************************************)
(* chroma-rag: the ChromaDB connection wrapper (ChromaInteractionClass),   *)
(* the Streamlit admin view and the ChromaDB agent that call it, and the   *)
(* remote collection endpoint they talk to.                                *)
(*                                                                         *)
(* Python values are modelled by what they are: a str is a sequence of     *)
(* one-character strings, a list is a sequence, None is the record None.   *)
(* An argument that may be a str or a list carries its type, because       *)
(* isinstance() is what the code asks of it.                               *)
(***************************************************************************)
EXTENDS Integers, Sequences, FiniteSets, TLC

\* ------------------------------------------------------------------ bounds
\* capacity of the remote store (documents over all collections)
MaxDocs == 3
\* longest batch a caller passes to store_data
MaxBatch == 2
\* largest explicit n_results a caller passes to query_data
MaxLimit == 1

\* ------------------------------------------------------------ Python values
None == [type |-> "NoneType"]
PyStr(s) == [type |-> "str", val |-> s]
PyList(l) == [type |-> "list", val |-> l]

\* isinstance(x, str)
IsStr(x) == x.type = "str"

\* the elements a Python for-loop sees: a str yields its characters, each a str
Iter(x) == IF IsStr(x) THEN [i \in 1..Len(x.val) |-> <<x.val[i]>>] ELSE x.val

\* a reference to a wrapper instance, as session state and agents hold it
Ref(w) == [type |-> "ChromaInteractionClass", id |-> w]

\* the characters str.strip() removes
Whitespace == {" ", "\n", "\t"}

RECURSIVE lstrip(_)
lstrip(s) == IF s # <<>> /\ Head(s) \in Whitespace THEN lstrip(Tail(s)) ELSE s

RECURSIVE rstrip(_)
rstrip(s) == IF s # <<>> /\ s[Len(s)] \in Whitespace
             THEN rstrip(SubSeq(s, 1, Len(s) - 1)) ELSE s

\* str.strip()
strip(s) == rstrip(lstrip(s))

\* str.split(sep) for a one-character separator
RECURSIVE split(_, _)
split(s, sep) ==
    IF \A i \in 1..Len(s) : s[i] # sep THEN <<s>>
    ELSE LET i == CHOOSE i \in 1..Len(s) : s[i] = sep /\ \A j \in 1..(i - 1) : s[j] # sep
         IN <<SubSeq(s, 1, i - 1)>> \o split(SubSeq(s, i + 1, Len(s)), sep)

\* str(x) of a str or of None
Str(x) == IF IsStr(x) THEN x.val ELSE <<"N", "o", "n", "e">>

\* [strip(doc) for doc in lines if strip(doc)]
RECURSIVE StrippedNonEmpty(_)
StrippedNonEmpty(lines) ==
    IF lines = <<>> THEN <<>>
    ELSE (IF strip(Head(lines)) # <<>> THEN <<strip(Head(lines))>> ELSE <<>>)
         \o StrippedNonEmpty(Tail(lines))

\* [str(doc) for doc in items if str(doc).strip()]
RECURSIVE StrNonBlank(_)
StrNonBlank(items) ==
    IF items = <<>> THEN <<>>
    ELSE (IF strip(Str(Head(items))) # <<>> THEN <<Str(Head(items))>> ELSE <<>>)
         \o StrNonBlank(Tail(items))

\* the document and query texts callers use: "" and "ab"
Texts == { <<>>, <<"a", "b">> }

\* the lists of at most n texts
Batches(n) == UNION { [1..k -> Texts] : k \in 0..n }

\* what a caller may pass as `documents`: one str, or a list of str
DocumentArgs == { PyStr(t) : t \in Texts } \cup { PyList(l) : l \in Batches(MaxBatch) }


VARIABLES
    \* the remote endpoint: the sequence of its collections,
    \* each [name, items], items a sequence of [id, document]
    server,
    \* the ChromaInteractionClass instances, by construction order:
    \* [name, collection_name, connection]
    wrappers,
    \* the wrapper method invocation made by the last step, if any:
    \* [op, w, outcome, requests, result]
    call,
    \* st.session_state, the keys of the admin view and of the chat view:
    \* [connected, chroma_client, documents_added, chroma_connected, agent]
    session_state,
    \* what the admin view showed for the last user action: [level, text]
    shown,
    \* the ChromaAgent: [chroma_client]
    agent,
    \* what the agent returned for the last message: [phrase, n, documents, detail]
    response,
    \* the last message sent to the agent
    user_message,
    \* per script thread, the wrapper call it is blocked in, if any
    in_flight

vars == <<server, wrappers, call, session_state, shown, agent, response, user_message, in_flight>>

\* ---------------------------------------------------------- remote endpoint
\* positions of the collections called `name`
CollectionsNamed(srv, name) == { i \in 1..Len(srv) : srv[i].name = name }

\* the collection a handle for `name` resolves to
Resolve(srv, name) == CHOOSE i \in CollectionsNamed(srv, name) :
                          \A j \in CollectionsNamed(srv, name) : i <= j

ItemsOf(srv, name) == IF CollectionsNamed(srv, name) = {} THEN <<>>
                      ELSE srv[Resolve(srv, name)].items

IdsIn(items) == { items[i].id : i \in 1..Len(items) }

AllIds(srv) == UNION { IdsIn(srv[i].items) : i \in 1..Len(srv) }

RECURSIVE TotalDocs(_)
TotalDocs(srv) == IF srv = <<>> THEN 0 ELSE Len(Head(srv).items) + TotalDocs(Tail(srv))

\* get-or-create collection by name: reuse it if present, create it if absent
Remote_get_or_create_collection(srv, name) ==
    IF CollectionsNamed(srv, name) # {} THEN srv
    ELSE Append(srv, [name |-> name, items |-> <<>>])

\* what the endpoint accepts of an add request: a non-empty batch with one
\* identifier per document and no identifier twice
AddAccepted(documents, ids) ==
    /\ Len(ids) > 0
    /\ Len(ids) = Len(documents)
    /\ \A i, j \in 1..Len(ids) : ids[i] = ids[j] => i = j

\* add: the records are appended in order; a record whose identifier the
\* collection already holds is skipped
RECURSIVE Remote_add_items(_, _, _)
Remote_add_items(items, documents, ids) ==
    IF documents = <<>> THEN items
    ELSE Remote_add_items(
             IF Head(ids) \in IdsIn(items) THEN items
             ELSE Append(items, [id |-> Head(ids), document |-> Head(documents)]),
             Tail(documents), Tail(ids))

Remote_add(srv, name, documents, ids) ==
    [srv EXCEPT ![Resolve(srv, name)].items = Remote_add_items(@, documents, ids)]

Abs(x) == IF x < 0 THEN -x ELSE x
MinOf(a, b) == IF a < b THEN a ELSE b

\* distance of a stored document from a query text: 0 for the text itself
Distance(q, d) == Abs(Len(q) - Len(d))
                  + Cardinality({ i \in 1..MinOf(Len(q), Len(d)) : q[i] # d[i] })

RemoveAt(s, i) == SubSeq(s, 1, i - 1) \o SubSeq(s, i + 1, Len(s))

\* the n nearest items to q, nearest first
RECURSIVE Nearest(_, _, _)
Nearest(items, q, n) ==
    IF n <= 0 \/ items = <<>> THEN <<>>
    ELSE LET i == CHOOSE i \in 1..Len(items) :
                      \A j \in 1..Len(items) :
                          \/ Distance(q, items[i].document) < Distance(q, items[j].document)
                          \/ /\ Distance(q, items[i].document) = Distance(q, items[j].document)
                             /\ i <= j
         IN <<items[i]>> \o Nearest(RemoveAt(items, i), q, n - 1)

\* the ranked answer to one query text
Ranking(items, q, n_results) ==
    LET hits == Nearest(items, q, n_results)
    IN [ids |-> [i \in 1..Len(hits) |-> hits[i].id],
        documents |-> [i \in 1..Len(hits) |-> hits[i].document],
        distances |-> [i \in 1..Len(hits) |-> Distance(q, hits[i].document)]]

\* similarity query: one ranked list per query text
Remote_query(srv, name, query_texts, n_results) ==
    LET items == ItemsOf(srv, name)
    IN [ids |-> [p \in 1..Len(query_texts) |->
                    Ranking(items, query_texts[p], n_results).ids],
        documents |-> [p \in 1..Len(query_texts) |->
                    Ranking(items, query_texts[p], n_results).documents],
        distances |-> [p \in 1..Len(query_texts) |->
                    Ranking(items, query_texts[p], n_results).distances]]

\* get-all: every identifier and document, in stored order
Remote_get(srv, name) ==
    LET items == ItemsOf(srv, name)
    IN [ids |-> [i \in 1..Len(items) |-> items[i].id],
        documents |-> [i \in 1..Len(items) |-> items[i].document]]

\* how the endpoint treats one request: it serves it, it is unreachable or
\* rejects it, or (a request that writes) it serves it and the reply is lost
WriteFates == {"served", "failed", "reply_lost"}
ReadFates == {"served", "failed"}

\* ----------------------------------------------------------------- uuid
\* the identifier space of uuid.uuid4()
UUIDs == 1..(MaxDocs + MaxBatch)

\* uuid.uuid4(): an identifier no earlier call returned
uuid4(used) == CHOOSE u \in UUIDs \ used : \A v \in UUIDs \ used : u <= v

\* ------------------------------------------------- ChromaInteractionClass
\* what one invocation leaves behind: what it returned or raised, the remote
\* requests it issued, and the endpoint and the wrapper's handle afterwards
Outcome(outcome, requests, result, srv, connection) ==
    [outcome |-> outcome, requests |-> requests, result |-> result,
     server |-> srv, connection |-> connection]

Handle(name) == [type |-> "Collection", name |-> name]

\* ChromaInteractionClass.__init__
NewWrapper(collection_name, name) ==
    [name |-> name, collection_name |-> collection_name, connection |-> None]

\* connect() as it would be if it dropped the old handle before asking for the
\* new one (self.connection = None; self.connection = ...get_or_create...)
connect_outcome_reset(self, srv, fate) ==
    LET request == [rpc |-> "get_or_create_collection", name |-> self.collection_name]
        created == Remote_get_or_create_collection(srv, self.collection_name)
    IN CASE fate = "served" ->
                Outcome("returned", <<request>>, None, created, Handle(self.collection_name))
         [] fate = "reply_lost" ->
                Outcome("RemoteError", <<request>>, None, created, None)
         [] OTHER ->
                Outcome("RemoteError", <<request>>, None, srv, None)

\* connect() as it would be if it caught the failure instead of raising it
connect_outcome_swallow(self, srv, fate) ==
    LET request == [rpc |-> "get_or_create_collection", name |-> self.collection_name]
        created == Remote_get_or_create_collection(srv, self.collection_name)
    IN CASE fate = "served" ->
                Outcome("returned", <<request>>, None, created, Handle(self.collection_name))
         [] fate = "reply_lost" ->
                Outcome("returned", <<request>>, None, created, self.connection)
         [] OTHER ->
                Outcome("returned", <<request>>, None, srv, self.connection)

\* connect() as it would be with create_collection in place of
\* get_or_create_collection: a collection is created at every call
connect_outcome_create(self, srv, fate) ==
    LET request == [rpc |-> "create_collection", name |-> self.collection_name]
        created == Append(srv, [name |-> self.collection_name, items |-> <<>>])
    IN CASE fate = "served" ->
                Outcome("returned", <<request>>, None, created, Handle(self.collection_name))
         [] fate = "reply_lost" ->
                Outcome("RemoteError", <<request>>, None, created, self.connection)
         [] OTHER ->
                Outcome("RemoteError", <<request>>, None, srv, self.connection)

\* connect(): self.connection = self.client.get_or_create_collection(...)
connect_outcome(self, srv, fate) ==
    LET request == [rpc |-> "get_or_create_collection", name |-> self.collection_name]
        created == Remote_get_or_create_collection(srv, self.collection_name)
    IN CASE fate = "served" ->
                Outcome("returned", <<request>>, None, created, Handle(self.collection_name))
         [] fate = "reply_lost" ->
                Outcome("RemoteError", <<request>>, None, created, self.connection)
         [] OTHER ->
                Outcome("RemoteError", <<request>>, None, srv, self.connection)

\* @require_connection as it would be if it returned instead of raising
require_connection_silent(self, srv, method) ==
    IF self.connection = None
    THEN Outcome("returned", <<>>, None, srv, self.connection)
    ELSE method

\* @require_connection: raise ConnectionError unless self.connection is set,
\* else run the method
require_connection(self, srv, method) ==
    IF self.connection = None
    THEN Outcome("NotConnected", <<>>, None, srv, self.connection)
    ELSE method

\* a list without the later copies of its elements
RECURSIVE Dedup(_)
Dedup(l) ==
    IF l = <<>> THEN <<>>
    ELSE LET front == Dedup(SubSeq(l, 1, Len(l) - 1))
         IN IF \E j \in 1..Len(front) : front[j] = l[Len(l)] THEN front
            ELSE Append(front, l[Len(l)])

\* lines 41-42 as they would be if the batch were also de-duplicated
\* (documents = list(dict.fromkeys(documents)))
store_data_documents_dedup(documents) ==
    IF IsStr(documents) THEN PyList(<<documents.val>>) ELSE PyList(Dedup(documents.val))

\* store_data as it would be without lines 41-42: a str is iterated like any
\* other sequence, one document per character
store_data_documents_chars(documents) == PyList(Iter(documents))

\* store_data, lines 41-42: a single str becomes a one-element list
store_data_documents(documents) ==
    IF IsStr(documents) THEN PyList(<<documents.val>>) ELSE documents

\* line 47 as it would be with one identifier made for the whole batch
\* ([str(uuid.uuid4())] * len(documents))
store_data_ids_same(documents, used) ==
    [i \in 1..Len(Iter(documents)) |-> uuid4(used)]

\* store_data, line 47: [str(uuid.uuid4()) for _ in documents]
RECURSIVE store_data_ids(_, _)
store_data_ids(documents, used) ==
    IF Iter(documents) = <<>> THEN <<>>
    ELSE <<uuid4(used)>> \o
         store_data_ids(PyList(Tail(Iter(documents))), used \cup {uuid4(used)})

\* the body of store_data as it would be with one retry of a failed add
store_data_body_retry(self, srv, documents, fate) ==
    LET docs == store_data_documents(documents)
        ids == store_data_ids(docs, AllIds(srv))
        request == [rpc |-> "add", name |-> self.connection.name,
                    documents |-> docs.val, ids |-> ids]
        accepted == AddAccepted(docs.val, ids)
                    /\ CollectionsNamed(srv, self.connection.name) # {}
        added == Remote_add(srv, self.connection.name, docs.val, ids)
    IN CASE fate = "served" /\ accepted ->
                Outcome("returned", <<request>>, None, added, self.connection)
         [] fate = "failed" /\ accepted ->
                Outcome("returned", <<request, request>>, None, added, self.connection)
         [] OTHER ->
                Outcome("RemoteError", <<request, request>>, None, srv, self.connection)

\* the body of store_data: one self.connection.add(documents=..., ids=...)
store_data_body(self, srv, documents, fate) ==
    LET docs == store_data_documents(documents)
        ids == store_data_ids(docs, AllIds(srv))
        \* the client library takes a str for a one-document batch
        sent == IF IsStr(docs) THEN <<docs.val>> ELSE docs.val
        request == [rpc |-> "add", name |-> self.connection.name,
                    documents |-> sent, ids |-> ids]
        accepted == AddAccepted(sent, ids) /\ CollectionsNamed(srv, self.connection.name) # {}
        added == Remote_add(srv, self.connection.name, sent, ids)
    IN CASE fate = "served" /\ accepted ->
                Outcome("returned", <<request>>, None, added, self.connection)
         [] fate = "reply_lost" /\ accepted ->
                Outcome("RemoteError", <<request>>, None, added, self.connection)
         [] OTHER ->
                Outcome("RemoteError", <<request>>, None, srv, self.connection)

store_data_outcome(self, srv, documents, fate) ==
    require_connection(self, srv, store_data_body(self, srv, documents, fate))

\* the default of query_data's n_results parameter
DefaultNResults == 10

\* n_results as it would be if query_data did not pass the caller's value on
query_data_n_results_dropped(n_results) == DefaultNResults

\* query_data's n_results: the caller's value, or the default when omitted
\* (the argument is <<>> when omitted, <<k>> when given)
query_data_n_results(n_results) ==
    IF n_results = <<>> THEN DefaultNResults ELSE n_results[1]

\* the body of query_data: one self.connection.query(query_texts=..., n_results=...)
query_data_body(self, srv, query_texts, n_results, fate) ==
    LET texts == IF IsStr(query_texts) THEN <<query_texts.val>> ELSE query_texts.val
        n == query_data_n_results(n_results)
        request == [rpc |-> "query", name |-> self.connection.name,
                    query_texts |-> texts, n_results |-> n]
        accepted == n > 0 /\ CollectionsNamed(srv, self.connection.name) # {}
    IN IF fate = "served" /\ accepted
       THEN Outcome("returned", <<request>>,
                    Remote_query(srv, self.connection.name, texts, n), srv, self.connection)
       ELSE Outcome("RemoteError", <<request>>, None, srv, self.connection)

query_data_outcome(self, srv, query_texts, n_results, fate) ==
    require_connection(self, srv, query_data_body(self, srv, query_texts, n_results, fate))

\* the body of show_all_data: one self.connection.get()
show_all_data_body(self, srv, fate) ==
    LET request == [rpc |-> "get", name |-> self.connection.name]
    IN IF fate = "served" /\ CollectionsNamed(srv, self.connection.name) # {}
       THEN Outcome("returned", <<request>>,
                    Remote_get(srv, self.connection.name), srv, self.connection)
       ELSE Outcome("RemoteError", <<request>>, None, srv, self.connection)

show_all_data_outcome(self, srv, fate) ==
    require_connection(self, srv, show_all_data_body(self, srv, fate))

\* ------------------------------------------------------------------ state
\* what an invocation finds: the wrapper's handle and the identifiers its
\* collection holds
Found(self, srv) ==
    [connection |-> self.connection,
     ids |-> IdsIn(ItemsOf(srv, self.collection_name))]

\* session state before the admin view has run, and no message shown
NoSession == [connected |-> FALSE, chroma_client |-> None, documents_added |-> 0,
              chroma_connected |-> FALSE, agent |-> None]
NoMessage == [level |-> "none", text |-> ""]

\* no agent constructed, and nothing returned by it
NoAgent == [chroma_client |-> None]
NoResponse == [phrase |-> "", n |-> 0, documents |-> <<>>, detail |-> ""]

NoCall == [op |-> "none", w |-> 0, args |-> <<>>, fate |-> "none", before |-> None,
           outcome |-> "none", requests |-> <<>>, result |-> None]

Invocation(op, w, args, fate, before, out) ==
    [op |-> op, w |-> w, args |-> args, fate |-> fate, before |-> before,
     outcome |-> out.outcome, requests |-> out.requests, result |-> out.result]

\* two wrappers have been constructed for the same collection, as the admin
\* view and the chat view construct them; the endpoint holds no collection
Init ==
    /\ server = <<>>
    /\ wrappers = << NewWrapper("documents", "admin_client"),
                     NewWrapper("documents", "chat_client") >>
    /\ call = NoCall
    /\ session_state = NoSession
    /\ shown = NoMessage
    /\ agent = NoAgent
    /\ response = NoResponse
    /\ user_message = None
    /\ in_flight = <<>>

\* the store still has room for a batch (bound of the model)
Room(srv, documents) == TotalDocs(srv) + Len(Iter(documents)) <= MaxDocs

\* one invocation of a wrapper method takes effect
Invoke(op, w, args, fate, out) ==
    /\ server' = out.server
    /\ wrappers' = [wrappers EXCEPT ![w].connection = out.connection]
    /\ call' = Invocation(op, w, args, fate, Found(wrappers[w], server), out)
    /\ UNCHANGED <<session_state, shown, agent, response, user_message, in_flight>>

connect(w) ==
    \E fate \in WriteFates :
        Invoke("connect", w, <<>>, fate, connect_outcome(wrappers[w], server, fate))

store_data(w, documents) ==
    /\ Room(server, documents)
    /\ \E fate \in WriteFates :
           Invoke("store_data", w, <<documents>>, fate,
                  store_data_outcome(wrappers[w], server, documents, fate))

query_data(w, query_texts, n_results) ==
    \E fate \in ReadFates :
        Invoke("query_data", w, <<query_texts, n_results>>, fate,
               query_data_outcome(wrappers[w], server, query_texts, n_results, fate))

show_all_data(w) ==
    \E fate \in ReadFates :
        Invoke("show_all_data", w, <<>>, fate,
               show_all_data_outcome(wrappers[w], server, fate))

\* the n_results arguments callers pass: omitted, or 1..MaxLimit
LimitArgs == {<<>>} \cup { <<k>> : k \in 1..MaxLimit }

\* the query texts callers pass: one str
QueryArgs == { PyStr(t) : t \in Texts }

Next ==
    \/ \E w \in 1..Len(wrappers) : connect(w)
    \/ \E w \in 1..Len(wrappers), d \in DocumentArgs : store_data(w, d)
    \/ \E w \in 1..Len(wrappers), q \in QueryArgs, k \in LimitArgs : query_data(w, q, k)
    \/ \E w \in 1..Len(wrappers) : show_all_data(w)

Spec == Init /\ [][Next]_vars

\* -------------------------------------------------------------- AdminView
\* wrapper instances one admin session constructs (bound of the model)
MaxWrappers == 2

\* text typed into "Dokumentinhalt": "", " ", "ab", " a\n"
SingleDocInputs == { <<>>, <<" ">>, <<"a", "b">>, <<" ", "a", "\n">> }

\* text typed into "Dokumente (ein Dokument pro Zeile)": "", "\n", "ab", "ab\n \nab "
MultiDocInputs == { <<>>, <<"\n">>, <<"a", "b">>,
                    <<"a", "b", "\n", " ", "\n", "a", "b", " ">> }

\* a parsed JSON object, by its keys
PyDict(keys) == [type |-> "dict", val |-> keys]

\* uploaded files: [type, readable, content]; content is the decoded text of a
\* text file and the parsed value of a JSON file; an unreadable file is one
\* that does not decode or does not parse
Uploads ==
    { [type |-> "text/plain", readable |-> TRUE, content |-> PyStr(t)] :
          t \in { <<"\n">>, <<"a", "b", "\n", "\n", " ", "a">> } }
    \cup { [type |-> "application/json", readable |-> TRUE, content |-> c] :
          c \in { PyList(<<>>), PyList(<<PyStr(<<"a", "b">>), PyStr(<<" ">>), None>>),
                  PyDict(<<PyStr(<<"n", "o", "t">>)>>), PyStr(<<"a", "b">>) } }
    \cup { [type |-> t, readable |-> FALSE, content |-> None] :
          t \in {"text/plain", "application/json"} }
    \cup { [type |-> "application/octet-stream", readable |-> TRUE, content |-> None] }

\* text typed into "Suchanfrage"
SearchInputs == { <<>>, <<" ">>, <<"a", "b">> }

Message(level, text) == [level |-> level, text |-> text]

\* a method call on None raises AttributeError
NoClient(srv) == Outcome("AttributeError", <<>>, None, srv, None)

\* st.session_state.chroma_client.store_data(documents)
session_store_data(documents, fate) ==
    IF session_state.chroma_client = None THEN NoClient(server)
    ELSE store_data_outcome(wrappers[session_state.chroma_client.id], server, documents, fate)

\* st.session_state.chroma_client.query_data(query_text, n_results)
session_query_data(query_text, n_results, fate) ==
    IF session_state.chroma_client = None THEN NoClient(server)
    ELSE query_data_outcome(wrappers[session_state.chroma_client.id], server,
                            query_text, n_results, fate)

\* st.session_state.chroma_client.show_all_data()
session_show_all_data(fate) ==
    IF session_state.chroma_client = None THEN NoClient(server)
    ELSE show_all_data_outcome(wrappers[session_state.chroma_client.id], server, fate)

\* the call a handler made on the session's client takes effect
SessionInvoke(op, args, fate, out) ==
    LET ref == session_state.chroma_client
    IN /\ server' = out.server
       /\ wrappers' = IF ref = None THEN wrappers
                      ELSE [wrappers EXCEPT ![ref.id].connection = out.connection]
       /\ call' = IF ref = None
                  THEN Invocation(op, 0, args, fate, [connection |-> None, ids |-> {}], out)
                  ELSE Invocation(op, ref.id, args, fate, Found(wrappers[ref.id], server), out)
       /\ UNCHANGED <<agent, response, user_message, in_flight>>

\* a handler that calls nothing
NoInvoke == /\ call' = NoCall
            /\ UNCHANGED <<server, wrappers, agent, response, user_message, in_flight>>

\* the try block around a store as it would be with the counter updated in a
\* finally clause: the counter moves whether or not store_data returned
StoreAndCount_finally(documents, n, fate, error_text) ==
    LET out == session_store_data(documents, fate)
    IN /\ SessionInvoke("store_data", <<documents>>, fate, out)
       /\ session_state' = [session_state EXCEPT !.documents_added = @ + n]
       /\ shown' = IF out.outcome = "returned"
                   THEN Message("success", "erfolgreich hinzugefuegt")
                   ELSE Message("error", error_text)

\* the try block around a store as it would be with the counter moved by one
\* per store, whatever the size of the batch
StoreAndCount_one(documents, n, fate, error_text) ==
    LET out == session_store_data(documents, fate)
    IN /\ SessionInvoke("store_data", <<documents>>, fate, out)
       /\ IF out.outcome = "returned"
          THEN /\ shown' = Message("success", "erfolgreich hinzugefuegt")
               /\ session_state' = [session_state EXCEPT !.documents_added = @ + 1]
          ELSE /\ shown' = Message("error", error_text)
               /\ UNCHANGED session_state

\* the try block around a store: on return the success message and the
\* counter, on any exception the error message
StoreAndCount(documents, n, fate, error_text) ==
    LET out == session_store_data(documents, fate)
    IN /\ SessionInvoke("store_data", <<documents>>, fate, out)
       /\ IF out.outcome = "returned"
          THEN /\ shown' = Message("success", "erfolgreich hinzugefuegt")
               /\ session_state' = [session_state EXCEPT !.documents_added = @ + n]
          ELSE /\ shown' = Message("error", error_text)
               /\ UNCHANGED session_state

\* "Verbinden" as it would be with the session keys set before connect() is
\* called and no reset in the except branch
Verbinden_optimistic(collection_name, client_name) ==
    /\ Len(wrappers) < MaxWrappers
    /\ \E fate \in WriteFates :
        LET w == Len(wrappers) + 1
            new == NewWrapper(collection_name, client_name)
            out == connect_outcome(new, server, fate)
        IN /\ server' = out.server
           /\ wrappers' = Append(wrappers, [new EXCEPT !.connection = out.connection])
           /\ call' = Invocation("connect", w, <<>>, fate, Found(new, server), out)
           /\ UNCHANGED <<agent, response, user_message, in_flight>>
           /\ session_state' = [session_state EXCEPT !.chroma_client = Ref(w),
                                                     !.connected = TRUE]
           /\ shown' = IF out.outcome = "returned"
                       THEN Message("success", "Verbindung erfolgreich!")
                       ELSE Message("error", "Verbindungsfehler")

\* connection_sidebar, "Verbinden": a new wrapper is constructed and connected
Verbinden(collection_name, client_name) ==
    /\ Len(wrappers) < MaxWrappers
    /\ \E fate \in WriteFates :
        LET w == Len(wrappers) + 1
            new == NewWrapper(collection_name, client_name)
            out == connect_outcome(new, server, fate)
        IN /\ server' = out.server
           /\ wrappers' = Append(wrappers, [new EXCEPT !.connection = out.connection])
           /\ call' = Invocation("connect", w, <<>>, fate, Found(new, server), out)
           /\ UNCHANGED <<agent, response, user_message, in_flight>>
           /\ IF out.outcome = "returned"
              THEN /\ session_state' = [session_state EXCEPT !.chroma_client = Ref(w),
                                                             !.connected = TRUE]
                   /\ shown' = Message("success", "Verbindung erfolgreich!")
              ELSE /\ session_state' = [session_state EXCEPT !.connected = FALSE]
                   /\ shown' = Message("error", "Verbindungsfehler")

\* connection_sidebar, "Trennen"
Trennen ==
    /\ session_state.connected
    /\ session_state' = [session_state EXCEPT !.connected = FALSE, !.chroma_client = None]
    /\ shown' = Message("info", "Verbindung getrennt")
    /\ NoInvoke

\* add_documents_section, tab "Einzelnes Dokument"
add_single_document(single_doc) ==
    /\ session_state.connected
    /\ IF strip(single_doc) # <<>>
       THEN /\ Room(server, PyList(<<single_doc>>))
            /\ \E fate \in WriteFates :
                   StoreAndCount(PyStr(single_doc), 1, fate, "Fehler beim Hinzufuegen")
       ELSE /\ shown' = Message("warning", "Bitte geben Sie Dokumentinhalt ein.")
            /\ NoInvoke
            /\ UNCHANGED session_state

\* add_documents_section, tab "Multiple Dokumente"
add_multiple_documents(multi_docs) ==
    /\ session_state.connected
    /\ LET docs_list == StrippedNonEmpty(split(multi_docs, "\n"))
       IN IF strip(multi_docs) = <<>>
          THEN /\ shown' = Message("warning", "Bitte geben Sie Dokumentinhalte ein.")
               /\ NoInvoke
               /\ UNCHANGED session_state
          ELSE IF docs_list = <<>>
          THEN /\ shown' = Message("warning", "Keine gueltigen Dokumente gefunden.")
               /\ NoInvoke
               /\ UNCHANGED session_state
          ELSE /\ Room(server, PyList(docs_list))
               /\ \E fate \in WriteFates :
                      StoreAndCount(PyList(docs_list), Len(docs_list), fate,
                                    "Fehler beim Hinzufuegen")

\* lines 113-125 as they would be without the isinstance(content, list) test:
\* whatever the JSON file holds is iterated
uploaded_documents_any(uploaded_file) ==
    IF uploaded_file.type = "text/plain"
    THEN IF ~uploaded_file.readable THEN [status |-> "raised", docs_list |-> <<>>]
         ELSE [status |-> "parsed",
               docs_list |-> StrippedNonEmpty(split(uploaded_file.content.val, "\n"))]
    ELSE IF uploaded_file.type = "application/json"
    THEN IF ~uploaded_file.readable THEN [status |-> "raised", docs_list |-> <<>>]
         ELSE [status |-> "parsed",
               docs_list |-> StrNonBlank(IF IsStr(uploaded_file.content)
                                         THEN [i \in 1..Len(uploaded_file.content.val) |->
                                                  PyStr(<<uploaded_file.content.val[i]>>)]
                                         ELSE uploaded_file.content.val)]
    ELSE [status |-> "unsupported", docs_list |-> <<>>]

\* add_documents_section, lines 113-125: the documents of an uploaded file, or
\* why there are none
uploaded_documents(uploaded_file) ==
    IF uploaded_file.type = "text/plain"
    THEN IF ~uploaded_file.readable THEN [status |-> "raised", docs_list |-> <<>>]
         ELSE [status |-> "parsed",
               docs_list |-> StrippedNonEmpty(split(uploaded_file.content.val, "\n"))]
    ELSE IF uploaded_file.type = "application/json"
    THEN IF ~uploaded_file.readable THEN [status |-> "raised", docs_list |-> <<>>]
         ELSE IF uploaded_file.content.type = "list"
         THEN [status |-> "parsed", docs_list |-> StrNonBlank(uploaded_file.content.val)]
         ELSE [status |-> "not_a_list", docs_list |-> <<>>]
    ELSE [status |-> "unsupported", docs_list |-> <<>>]

\* add_documents_section, tab "Datei Upload", "Datei verarbeiten"
process_file(uploaded_file) ==
    /\ session_state.connected
    /\ LET parsed == uploaded_documents(uploaded_file)
       IN CASE parsed.status = "not_a_list" ->
                 /\ shown' = Message("error", "JSON-Datei muss ein Array von Strings enthalten.")
                 /\ NoInvoke
                 /\ UNCHANGED session_state
            [] parsed.status = "unsupported" ->
                 /\ shown' = Message("error", "Nicht unterstuetztes Dateiformat.")
                 /\ NoInvoke
                 /\ UNCHANGED session_state
            [] parsed.status = "raised" ->
                 /\ shown' = Message("error", "Fehler beim Verarbeiten der Datei")
                 /\ NoInvoke
                 /\ UNCHANGED session_state
            [] parsed.status = "parsed" /\ parsed.docs_list = <<>> ->
                 /\ shown' = Message("warning", "Keine gueltigen Dokumente in der Datei gefunden.")
                 /\ NoInvoke
                 /\ UNCHANGED session_state
            [] OTHER ->
                 /\ Room(server, PyList(parsed.docs_list))
                 /\ \E fate \in WriteFates :
                        StoreAndCount(PyList(parsed.docs_list), Len(parsed.docs_list), fate,
                                      "Fehler beim Verarbeiten der Datei")

\* query_section, "Suchen"
search(query_text, n_results) ==
    /\ session_state.connected
    /\ UNCHANGED session_state
    /\ IF strip(query_text) = <<>>
       THEN /\ shown' = Message("warning", "Bitte geben Sie eine Suchanfrage ein.")
            /\ NoInvoke
       ELSE \E fate \in ReadFates :
                LET out == session_query_data(PyStr(query_text), <<n_results>>, fate)
                IN /\ SessionInvoke("query_data", <<PyStr(query_text), <<n_results>>>>, fate, out)
                   /\ shown' = IF out.outcome # "returned"
                               THEN Message("error", "Fehler bei der Suche")
                               ELSE IF out.result.documents[1] # <<>>
                               THEN Message("results", "Suchergebnisse:")
                               ELSE Message("info", "Keine Ergebnisse gefunden.")

\* database_overview_section, "Alle Daten anzeigen"
show_all ==
    /\ session_state.connected
    /\ UNCHANGED session_state
    /\ \E fate \in ReadFates :
           LET out == session_show_all_data(fate)
           IN /\ SessionInvoke("show_all_data", <<>>, fate, out)
              /\ shown' = IF out.outcome # "returned"
                          THEN Message("error", "Fehler beim Laden der Daten")
                          ELSE IF out.result.documents # <<>>
                          THEN Message("results", "Alle Dokumente:")
                          ELSE Message("info", "Keine Dokumente in der Datenbank.")

\* the admin view before its first run: no wrapper, empty session state
AdminInit ==
    /\ server = <<>>
    /\ wrappers = <<>>
    /\ call = NoCall
    /\ session_state = NoSession
    /\ shown = NoMessage
    /\ agent = NoAgent
    /\ response = NoResponse
    /\ user_message = None
    /\ in_flight = <<>>

AdminNext ==
    \/ Verbinden("documents", "admin_client")
    \/ Trennen
    \/ \E d \in SingleDocInputs : add_single_document(d)
    \/ \E d \in MultiDocInputs : add_multiple_documents(d)
    \/ \E f \in Uploads : process_file(f)
    \/ \E q \in SearchInputs, k \in 1..MaxLimit : search(q, k)
    \/ show_all

AdminSpec == AdminInit /\ [][AdminNext]_vars

\* ---------------------------------------------------------------- ChatView
\* create_chroma_agent / ChromaAgentRunner.__init__: the agent, or the
\* ValueError for a client that is None
create_chroma_agent(chroma_client) ==
    IF chroma_client = None
    THEN [raised |-> TRUE, agent |-> None]
    ELSE [raised |-> FALSE, agent |-> [chroma_client |-> chroma_client]]

\* agent_setup, line 111: the client handed to create_chroma_agent is the
\* attribute of the ChatView object of this run
agent_setup_client(self_chroma_client, state) == self_chroma_client

\* one run of ChatView.run: a new ChatView, init_session_state with the
\* automatic connect, then agent_setup with "Initialize Agent" clicked or not.
\* The button can be clicked only if the run before rendered it. The chat
\* input and the quick actions are rendered only once session_state.agent is set.
chat_run(api_key, clicked, fate) ==
    LET auto == ~session_state.chroma_connected /\ session_state.chroma_client = None
        w == Len(wrappers) + 1
        new == NewWrapper("documents", "chat_client")
        out == connect_outcome(new, server, fate)
        \* self.chroma_client after init_session_state
        self_chroma_client == IF auto THEN Ref(w) ELSE None
        initialized ==
            IF ~auto THEN session_state
            ELSE IF out.outcome = "returned"
            THEN [session_state EXCEPT !.chroma_client = Ref(w), !.chroma_connected = TRUE]
            ELSE [session_state EXCEPT !.chroma_connected = FALSE]
        created == create_chroma_agent(agent_setup_client(self_chroma_client, initialized))
    IN /\ clicked => (session_state.chroma_connected /\ api_key)
       /\ auto => Len(wrappers) < MaxWrappers
       /\ ~auto => fate = "served"
       /\ IF auto
          THEN /\ server' = out.server
               /\ wrappers' = Append(wrappers, [new EXCEPT !.connection = out.connection])
               /\ call' = Invocation("connect", w, <<>>, fate, Found(new, server), out)
          ELSE /\ call' = NoCall
               /\ UNCHANGED <<server, wrappers>>
       /\ IF ~initialized.chroma_connected
          THEN /\ session_state' = initialized
               /\ shown' = Message("error", "ChromaDB Connection Failed")
          ELSE IF ~api_key
          THEN /\ session_state' = initialized
               /\ shown' = Message("warning", "API Key erforderlich")
          ELSE IF ~clicked
          THEN /\ session_state' = initialized
               /\ shown' = IF initialized.agent # None
                           THEN Message("success", "Agent Ready")
                           ELSE Message("warning", "Agent Not Initialized")
          ELSE IF created.raised
          THEN /\ session_state' = initialized
               /\ shown' = Message("error", "Error initializing agent")
          ELSE /\ session_state' = [initialized EXCEPT !.agent = created.agent]
               /\ shown' = Message("success", "Agent initialized successfully!")
       /\ UNCHANGED <<agent, response, user_message, in_flight>>

\* app.py: the chat page and the admin page run on one st.session_state
AppNext ==
    \/ \E api_key \in BOOLEAN, clicked \in BOOLEAN, fate \in WriteFates :
           chat_run(api_key, clicked, fate)
    \/ AdminNext

AppSpec == AdminInit /\ [][AppNext]_vars

\* ------------------------------------------------------------- ChromaAgent
UpperCase == <<"A", "B", "C", "D", "E", "F", "G", "H", "I", "J", "K", "L", "M", "N", "O", "P", "Q", "R", "S", "T", "U", "V", "W", "X", "Y", "Z">>
LowerCase == <<"a", "b", "c", "d", "e", "f", "g", "h", "i", "j", "k", "l", "m", "n", "o", "p", "q", "r", "s", "t", "u", "v", "w", "x", "y", "z">>

\* str.lower()
lower(s) ==
    SubSeq([i \in 1..Len(s) |->
               IF \E k \in 1..Len(UpperCase) : UpperCase[k] = s[i]
               THEN LowerCase[CHOOSE k \in 1..Len(UpperCase) : UpperCase[k] = s[i]]
               ELSE s[i]], 1, Len(s))

Occurs(s, sub, i) == i + Len(sub) - 1 <= Len(s) /\ \A k \in 1..Len(sub) : s[i + k - 1] = sub[k]

\* the positions, counted from 1, at which sub occurs in s
Occurrences(s, sub) == { i \in 1..Len(s) : Occurs(s, sub, i) }

\* str.find(sub), counting positions from 1: 0 when sub does not occur
find(s, sub) ==
    LET at == Occurrences(s, sub)
    IN IF at = {} THEN 0 ELSE CHOOSE i \in at : \A j \in at : i <= j

\* str.rfind(sub), counting positions from 1: 0 when sub does not occur
rfind(s, sub) ==
    LET at == Occurrences(s, sub)
    IN IF at = {} THEN 0 ELSE CHOOSE i \in at : \A j \in at : i >= j

\* sub in s
Contains(s, sub) == find(s, sub) # 0

\* store_keywords: store, add, save, hinzufuegen ("ue" is the one letter u-umlaut), speichern
store_keywords == { <<"s", "t", "o", "r", "e">>,
                   <<"a", "d", "d">>,
                   <<"s", "a", "v", "e">>,
                   <<"h", "i", "n", "z", "u", "f", "ue", "g", "e", "n">>,
                   <<"s", "p", "e", "i", "c", "h", "e", "r", "n">> }

\* query_keywords: search, find, query, suche, finde
query_keywords == { <<"s", "e", "a", "r", "c", "h">>,
                   <<"f", "i", "n", "d">>,
                   <<"q", "u", "e", "r", "y">>,
                   <<"s", "u", "c", "h", "e">>,
                   <<"f", "i", "n", "d", "e">> }

\* the keywords of _extract_query, in its order: search for, find, query, suche nach, finde
extract_keywords == << <<"s", "e", "a", "r", "c", "h", " ", "f", "o", "r">>,
                      <<"f", "i", "n", "d">>,
                      <<"q", "u", "e", "r", "y">>,
                      <<"s", "u", "c", "h", "e", " ", "n", "a", "c", "h">>,
                      <<"f", "i", "n", "d", "e">> >>

_is_store_request(query) ==
    LET query_lower == lower(query)
    IN \E keyword \in store_keywords : Contains(query_lower, keyword)

_is_query_request(query) ==
    LET query_lower == lower(query)
    IN \E keyword \in query_keywords : Contains(query_lower, keyword)

\* re.findall(r'"([^"]*)"', query)
RECURSIVE findall_quoted(_)
findall_quoted(s) ==
    IF find(s, <<"\"">>) = 0 THEN <<>>
    ELSE LET rest == SubSeq(s, find(s, <<"\"">>) + 1, Len(s))
             close == find(rest, <<"\"">>)
         IN IF close = 0 THEN <<>>
            ELSE <<SubSeq(rest, 1, close - 1)>>
                 \o findall_quoted(SubSeq(rest, close + 1, Len(rest)))

\* ast.literal_eval of a list literal whose elements are single-quoted strings
\* without commas or quotes in them: [ok, val], ok FALSE where it raises. These
\* are the list literals of AgentMessages; other literals are not modelled.
literal_eval(list_str) ==
    LET inner == SubSeq(list_str, 2, Len(list_str) - 1)
        parts == split(inner, ",")
        IsString(e) == /\ Len(e) >= 2
                       /\ e[1] = "'"
                       /\ e[Len(e)] = "'"
                       /\ \A i \in 2..(Len(e) - 1) : e[i] # "'"
    IN IF Len(list_str) < 2 THEN [ok |-> FALSE, val |-> <<>>]
       ELSE IF strip(inner) = <<>> THEN [ok |-> TRUE, val |-> <<>>]
       ELSE IF \A i \in 1..Len(parts) : IsString(strip(parts[i]))
       THEN [ok |-> TRUE,
             val |-> [i \in 1..Len(parts) |->
                         SubSeq(strip(parts[i]), 2, Len(strip(parts[i])) - 1)]]
       ELSE [ok |-> FALSE, val |-> <<>>]

\* ChromaAgent._extract_documents
_extract_documents(query) ==
    LET quoted_docs == findall_quoted(query)
        start == find(query, <<"[">>)
        end == rfind(query, <<"]">>)
        docs_list == literal_eval(SubSeq(query, start, end))
        Truthy(doc) == doc # <<>>
    IN IF quoted_docs # <<>> THEN quoted_docs
       ELSE IF start # 0 /\ end # 0 /\ docs_list.ok THEN SelectSeq(docs_list.val, Truthy)
       ELSE IF Contains(query, <<":">>)
       THEN << strip(SubSeq(query, find(query, <<":">>) + 1, Len(query))) >>
       ELSE <<>>

\* ChromaAgent._extract_query
_extract_query(query) ==
    LET lower_query == lower(query)
        hits == { k \in 1..Len(extract_keywords) : Contains(lower_query, extract_keywords[k]) }
    IN IF hits = {} THEN query
       ELSE LET k == CHOOSE k \in hits : \A h \in hits : k <= h
            IN strip(SubSeq(query,
                            find(lower_query, extract_keywords[k]) + Len(extract_keywords[k]),
                            Len(query)))

\* n_results of the query branch and of the context lookup
QueryNResults == 5
ContextNResults == 3

\* the text run() returns: its fixed phrase, and what it fills in
Reply(phrase, n, documents, detail) ==
    [phrase |-> phrase, n |-> n, documents |-> documents, detail |-> detail]

\* what one branch of run() did: the wrapper call it made, if any, and its reply
Ran(op, args, out, reply) == [op |-> op, args |-> args, out |-> out, response |-> reply]

NotCalled(self, srv) == Outcome("none", <<>>, None, srv, self.connection)

\* lines 46-48 and 93-97: the text after store_data returned or raised
store_reply(documents, out) ==
    Ran("store_data", <<PyList(documents)>>, out,
        IF out.outcome = "returned"
        THEN Reply("Successfully stored {n} documents in ChromaDB.", Len(documents), <<>>, "")
        ELSE Reply("Error processing request: {e}", 0, <<>>, out.outcome))

\* lines 44-50: store the extracted documents, if there are any
store_documents(self, srv, documents, fate) ==
    IF documents = <<>>
    THEN Ran("none", <<>>, NotCalled(self, srv),
             Reply("No documents found to store.", 0, <<>>, ""))
    ELSE store_reply(documents, store_data_outcome(self, srv, PyList(documents), fate))

\* run(), lines 42-50: the store branch
store_branch(self, srv, user_query, fate) ==
    store_documents(self, srv, _extract_documents(user_query), fate)

\* lines 55-60 as they would be with the try/except of the context lookup
\* (lines 65-71) around the query: a failed query reads as no result
query_reply_swallow(query, out) ==
    Ran("query_data", <<PyStr(query), <<QueryNResults>>>>, out,
        IF out.outcome = "returned" /\ out.result.documents[1] # <<>>
        THEN Reply("Found {n} relevant documents:", Len(out.result.documents[1]),
                   out.result.documents[1], "")
        ELSE Reply("No documents found for query: '{query}'", 0, <<>>, ""))

\* lines 55-60 and 93-97: the text after query_data returned or raised
query_reply(query, out) ==
    Ran("query_data", <<PyStr(query), <<QueryNResults>>>>, out,
        IF out.outcome # "returned"
        THEN Reply("Error processing request: {e}", 0, <<>>, out.outcome)
        ELSE IF out.result.documents[1] # <<>>
        THEN Reply("Found {n} relevant documents:", Len(out.result.documents[1]),
                   out.result.documents[1], "")
        ELSE Reply("No documents found for query: '{query}'", 0, <<>>, ""))

\* line 53: query_data(query, n_results=5)
query_documents(self, srv, query, fate) ==
    query_reply(query, query_data_outcome(self, srv, PyStr(query), <<QueryNResults>>, fate))

\* run(), lines 51-60: the query branch
query_branch(self, srv, user_query, fate) ==
    query_documents(self, srv, _extract_query(user_query), fate)

\* lines 63-86 as they would be without the try/except around the context
\* lookup: its failure reaches the outer except of run()
general_reply_raise(user_query, out, llm_answers) ==
    Ran("query_data", <<PyStr(user_query), <<ContextNResults>>>>, out,
        IF out.outcome # "returned"
        THEN Reply("Error processing request: {e}", 0, <<>>, out.outcome)
        ELSE IF llm_answers
        THEN Reply("{response.text}", 0, out.result.documents[1], "")
        ELSE Reply("I received your message: '{user_query}'.", 0, <<>>, ""))

\* lines 67-86: the context lookup's failure is swallowed; the LLM answers with
\* the context it was given, or fails and the fallback text is returned
general_reply(user_query, out, llm_answers) ==
    Ran("query_data", <<PyStr(user_query), <<ContextNResults>>>>, out,
        IF llm_answers
        THEN Reply("{response.text}", 0,
                   IF out.outcome = "returned" THEN out.result.documents[1] ELSE <<>>, "")
        ELSE Reply("I received your message: '{user_query}'.", 0, <<>>, ""))

\* run(), lines 63-86: the general branch
general_branch(self, srv, user_query, fate, llm_answers) ==
    general_reply(user_query,
                  query_data_outcome(self, srv, PyStr(user_query), <<ContextNResults>>, fate),
                  llm_answers)

\* run() as it would be with the query test before the store test
run_query_first(a, wrs, srv, user_query, fate, llm_answers) ==
    IF a.chroma_client = None
    THEN Ran("none", <<>>, Outcome("none", <<>>, None, srv, None),
             Reply("Error: ChromaDB client is not initialized.", 0, <<>>, ""))
    ELSE IF _is_query_request(user_query)
    THEN query_branch(wrs[a.chroma_client.id], srv, user_query, fate)
    ELSE IF _is_store_request(user_query)
    THEN store_branch(wrs[a.chroma_client.id], srv, user_query, fate)
    ELSE general_branch(wrs[a.chroma_client.id], srv, user_query, fate, llm_answers)

\* ChromaAgent.run
run(a, wrs, srv, user_query, fate, llm_answers) ==
    IF a.chroma_client = None
    THEN Ran("none", <<>>, Outcome("none", <<>>, None, srv, None),
             Reply("Error: ChromaDB client is not initialized.", 0, <<>>, ""))
    ELSE IF _is_store_request(user_query)
    THEN store_branch(wrs[a.chroma_client.id], srv, user_query, fate)
    ELSE IF _is_query_request(user_query)
    THEN query_branch(wrs[a.chroma_client.id], srv, user_query, fate)
    ELSE general_branch(wrs[a.chroma_client.id], srv, user_query, fate, llm_answers)

\* the messages sent to the agent:
\*   add "ab" "ab"   save   Store this document: ab   add ['ab', '']
\*   find ab   find, add: ab   hi
AgentMessages == {
    <<"a", "d", "d", " ", "\"", "a", "b", "\"", " ", "\"", "a", "b", "\"">>,
    <<"s", "a", "v", "e">>,
    <<"S", "t", "o", "r", "e", " ", "t", "h", "i", "s", " ", "d", "o", "c", "u", "m", "e", "n", "t", ":", " ", "a", "b">>,
    <<"a", "d", "d", " ", "[", "'", "a", "b", "'", ",", " ", "'", "'", "]">>,
    <<"f", "i", "n", "d", " ", "a", "b">>,
    <<"f", "i", "n", "d", ",", " ", "a", "d", "d", ":", " ", "a", "b">>,
    <<"h", "i">> }

\* the effect of one run(): its text, and the wrapper call it made, if any
Deliver(ran, w, fate) ==
    /\ ran.op = "store_data" => Room(server, ran.args[1])
    /\ ran.op # "store_data" => fate \in ReadFates
    /\ response' = ran.response
    /\ IF ran.op = "none"
       THEN /\ call' = NoCall
            /\ UNCHANGED <<server, wrappers>>
       ELSE /\ server' = ran.out.server
            /\ wrappers' = [wrappers EXCEPT ![w].connection = ran.out.connection]
            /\ call' = Invocation(ran.op, w, ran.args, fate, Found(wrappers[w], server), ran.out)
    /\ UNCHANGED <<session_state, shown, agent, in_flight>>

\* ChromaAgentRunner.send_message: run() on the message, and its text
send_message(message) ==
    \E fate \in WriteFates, llm_answers \in BOOLEAN :
        /\ user_message' = PyStr(message)
        /\ Deliver(run(agent, wrappers, server, message, fate, llm_answers),
                   agent.chroma_client.id, fate)

\* an agent has been constructed on the chat view's wrapper, or on no client
AgentInit ==
    /\ server = <<>>
    /\ wrappers = << NewWrapper("documents", "admin_client"),
                     NewWrapper("documents", "chat_client") >>
    /\ call = NoCall
    /\ session_state = NoSession
    /\ shown = NoMessage
    /\ agent \in { [chroma_client |-> None], [chroma_client |-> Ref(2)] }
    /\ response = NoResponse
    /\ user_message = None
    /\ in_flight = <<>>

AgentNext ==
    \/ \E w \in 1..Len(wrappers) : connect(w)
    \/ \E m \in AgentMessages : send_message(m)

AgentSpec == AgentInit /\ [][AgentNext]_vars

\* ------------------------------------------------------------ script threads
\* Each browser session has its own st.session_state and runs the script in
\* one thread; the wrapper a session constructs is kept in that session's
\* st.session_state and in the agent made from it, and nowhere else.
Sessions == 1..MaxWrappers

\* the wrapper as it would be if it were kept in a module-level variable that
\* every session's run reads
session_wrapper_shared(s) == 1

\* the wrapper session s holds in st.session_state.chroma_client
session_wrapper(s) == s

\* the wrapper calls of the presentation layer: by the admin handlers, by the
\* "View All Documents" quick action, and by the agent answering a prompt
FlightCalls ==
    { [by |-> "admin", op |-> "connect", args |-> <<>>],
      [by |-> "admin", op |-> "store_data", args |-> <<PyStr(<<"a", "b">>)>>],
      [by |-> "admin", op |-> "query_data", args |-> <<PyStr(<<"a", "b">>), <<1>>>>],
      [by |-> "admin", op |-> "show_all_data", args |-> <<>>],
      [by |-> "quick_action", op |-> "show_all_data", args |-> <<>>],
      [by |-> "agent", op |-> "store_data", args |-> <<PyList(<< <<"a", "b">> >>)>>],
      [by |-> "agent", op |-> "query_data", args |-> <<PyStr(<<"a", "b">>), <<QueryNResults>>>>] }

\* what the wrapper method of an in-flight call does when the endpoint answers
flight_outcome(f, fate) ==
    CASE f.op = "connect" -> connect_outcome(wrappers[f.w], server, fate)
      [] f.op = "store_data" -> store_data_outcome(wrappers[f.w], server, f.args[1], fate)
      [] f.op = "query_data" ->
             query_data_outcome(wrappers[f.w], server, f.args[1], f.args[2], fate)
      [] OTHER -> show_all_data_outcome(wrappers[f.w], server, fate)

\* the script thread of session s reaches a wrapper call and blocks in it: a
\* thread that is inside a call executes nothing else
begin_call(s, c) ==
    /\ in_flight[s] = None
    /\ in_flight' = [in_flight EXCEPT ![s] = [by |-> c.by, op |-> c.op, args |-> c.args,
                                               w |-> session_wrapper(s)]]
    /\ call' = NoCall
    /\ UNCHANGED <<server, wrappers, session_state, shown, agent, response, user_message>>

\* the call of session s returns or raises, and the thread goes on
end_call(s) ==
    /\ in_flight[s] # None
    /\ in_flight[s].op = "store_data" => Room(server, in_flight[s].args[1])
    /\ \E fate \in WriteFates :
           LET f == in_flight[s]
               out == flight_outcome(f, fate)
           IN /\ f.op \in {"query_data", "show_all_data"} => fate \in ReadFates
              /\ server' = out.server
              /\ wrappers' = [wrappers EXCEPT ![f.w].connection = out.connection]
              /\ call' = Invocation(f.op, f.w, f.args, fate, Found(wrappers[f.w], server), out)
    /\ in_flight' = [in_flight EXCEPT ![s] = None]
    /\ UNCHANGED <<session_state, shown, agent, response, user_message>>

FlightInit ==
    /\ server = <<>>
    /\ wrappers = [s \in Sessions |-> NewWrapper("documents", "chat_client")]
    /\ call = NoCall
    /\ session_state = NoSession
    /\ shown = NoMessage
    /\ agent = NoAgent
    /\ response = NoResponse
    /\ user_message = None
    /\ in_flight = [s \in Sessions |-> None]

FlightNext ==
    \/ \E s \in Sessions, c \in FlightCalls : begin_call(s, c)
    \/ \E s \in Sessions : end_call(s)

FlightSpec == FlightInit /\ [][FlightNext]_vars

\* ----------------------------------------------------------------- properties
WrapperReads == {"store_data", "query_data", "show_all_data"}
WrapperOps == WrapperReads \cup {"connect"}

Connected(w) == wrappers[w].connection # None

\* the batch a `documents` argument denotes: the str itself, or the list
BatchOf(documents) == IF IsStr(documents) THEN <<documents.val>> ELSE documents.val

NonDecreasing(s) == \A i \in 1..(Len(s) - 1) : s[i] <= s[i + 1]

\* C1: on a wrapper on which no connect() has succeeded (its handle is None
\* when the call is made), every store_data, query_data and show_all_data call
\* raises NotConnected, issues no remote request, and leaves the endpoint and
\* every wrapper as they were; it never returns normally.
C1_UnconnectedCallFails ==
    [][ (call'.op \in WrapperReads /\ call'.before.connection = None)
        => /\ call'.outcome = "NotConnected"
           /\ call'.requests = <<>>
           /\ server' = server
           /\ wrappers' = wrappers ]_vars

C1_Witness ==
    /\ call.op = "store_data"
    /\ call.before.connection = None
    /\ call.outcome = "NotConnected"
    /\ Connected(3 - call.w)
    /\ ItemsOf(server, "documents") # <<>>

\* C2: once connect() has succeeded on a wrapper, the wrapper stays connected
\* through every later call, also a connect() that fails and store, query and
\* list calls that fail remotely, and no store_data, query_data or
\* show_all_data call on it fails with NotConnected.
C2_StaysConnected ==
    [][ \A w \in 1..Len(wrappers) :
          (Connected(w) \/ (call'.op = "connect" /\ call'.w = w /\ call'.outcome = "returned"))
          => /\ wrappers'[w].connection # None
             /\ ~(call'.w = w /\ call'.op \in WrapperReads /\ call'.outcome = "NotConnected") ]_vars

C2_Witness ==
    /\ call.op = "connect"
    /\ call.before.connection # None
    /\ call.outcome = "RemoteError"
    /\ Connected(call.w)

\* C3: a connect() that fails on a wrapper that never connected raises the
\* failure to the caller and leaves the handle None, and as long as the handle
\* is None every store_data, query_data and show_all_data call on the wrapper
\* fails with NotConnected.
C3_FailedConnectStaysUnconnected ==
    [][ \A w \in 1..Len(wrappers) :
          /\ (call'.op = "connect" /\ call'.w = w /\ call'.before.connection = None
                  /\ call'.fate # "served")
             => (call'.outcome = "RemoteError" /\ wrappers'[w].connection = None)
          /\ (call.op = "connect" /\ call.w = w /\ call.outcome # "returned"
                  /\ ~Connected(w) /\ call'.op \in WrapperReads /\ call'.w = w)
             => call'.outcome = "NotConnected" ]_vars

C3_Witness ==
    /\ call.op = "connect"
    /\ call.before.connection = None
    /\ call.fate = "failed"
    /\ call.outcome = "RemoteError"
    /\ ~Connected(call.w)

\* C4: a connect() on a wrapper that is already connected, served by the
\* endpoint, returns without error, leaves exactly one collection of the bound
\* name, changes no document, and leaves the wrapper connected to that collection.
C4_ConnectIdempotent ==
    [][ (call'.op = "connect" /\ call'.before.connection # None /\ call'.fate = "served")
        => /\ call'.outcome = "returned"
           /\ Cardinality(CollectionsNamed(server', wrappers[call'.w].collection_name)) = 1
           /\ server' = server
           /\ wrappers'[call'.w].connection = Handle(wrappers[call'.w].collection_name) ]_vars

C4_Witness ==
    /\ call.op = "connect"
    /\ call.before.connection # None
    /\ call.fate = "served"
    /\ call.outcome = "returned"
    /\ call.before.ids # {}

\* C5: every store_data call on a connected wrapper issues exactly one remote
\* request, an add that carries the documents of the batch in their order and
\* one identifier per document; the identifiers are pairwise distinct and none
\* of them is an identifier the collection already held.
C5_OneAddFreshIds ==
    (call.op = "store_data" /\ call.before.connection # None)
    => /\ Len(call.requests) = 1
       /\ call.requests[1].rpc = "add"
       /\ call.requests[1].documents = BatchOf(call.args[1])
       /\ Len(call.requests[1].ids) = Len(call.requests[1].documents)
       /\ \A i, j \in 1..Len(call.requests[1].ids) :
              call.requests[1].ids[i] = call.requests[1].ids[j] => i = j
       /\ \A i \in 1..Len(call.requests[1].ids) :
              call.requests[1].ids[i] \notin call.before.ids

C5_Witness ==
    /\ call.op = "store_data"
    /\ call.outcome = "returned"
    /\ Len(call.requests[1].documents) = 2
    /\ call.before.ids # {}

\* C6: right after a store_data of n documents has returned, a show_all_data
\* that the endpoint serves returns n documents more than the collection held
\* before the store, with one identifier per document, and every stored
\* document is in it next to its identifier, also when the same text is stored
\* twice or was there already.
C6_StoreThenList ==
    (call.op = "store_data" /\ call.outcome = "returned")
    => LET listing == show_all_data_outcome(wrappers[call.w], server, "served")
           batch == BatchOf(call.args[1])
       IN /\ listing.outcome = "returned"
          /\ Len(listing.result.documents) = Cardinality(call.before.ids) + Len(batch)
          /\ Len(listing.result.ids) = Len(listing.result.documents)
          /\ \A i \in 1..Len(batch) :
                 \E j \in 1..Len(listing.result.documents) :
                     /\ listing.result.documents[j] = batch[i]
                     /\ listing.result.ids[j] = call.requests[1].ids[i]

C6_Witness ==
    /\ call.op = "store_data"
    /\ call.outcome = "returned"
    /\ call.before.ids # {}
    /\ Len(BatchOf(call.args[1])) = 2
    /\ BatchOf(call.args[1])[1] = BatchOf(call.args[1])[2]
    /\ \E i \in 1..Len(ItemsOf(server, "documents")) :
           /\ ItemsOf(server, "documents")[i].id \in call.before.ids
           /\ ItemsOf(server, "documents")[i].document = BatchOf(call.args[1])[1]

\* C7: query_data on a connected wrapper passes the caller's n_results on
\* unchanged, 10 when the caller gives none, and what it returns holds at most
\* that many results per query text, in order of non-decreasing distance.
C7_QueryLimitAndOrder ==
    (call.op = "query_data" /\ call.before.connection # None)
    => LET k == IF call.args[2] = <<>> THEN 10 ELSE call.args[2][1]
       IN /\ Len(call.requests) = 1
          /\ call.requests[1].rpc = "query"
          /\ call.requests[1].n_results = k
          /\ call.outcome = "returned"
             => \A p \in 1..Len(call.result.documents) :
                    /\ Len(call.result.documents[p]) <= k
                    /\ Len(call.result.distances[p]) = Len(call.result.documents[p])
                    /\ NonDecreasing(call.result.distances[p])

C7_Witness ==
    /\ call.op = "query_data"
    /\ call.outcome = "returned"
    /\ call.args[2] = <<1>>
    /\ Len(ItemsOf(server, "documents")) = 2
    /\ Len(call.result.documents[1]) = 1
    /\ call.result.documents[1][1] = ItemsOf(server, "documents")[2].document
    /\ call.result.distances[1][1] < Distance(call.args[1].val, ItemsOf(server, "documents")[1].document)

\* C8: connect, store_data, query_data and show_all_data each issue at most one
\* remote request per invocation, and when the endpoint does not serve that
\* request the invocation itself raises the failure: it does not return.
C8_NoRetry ==
    call.op \in WrapperOps
    => /\ Len(call.requests) <= 1
       /\ (call.requests # <<>> /\ call.fate # "served") => call.outcome = "RemoteError"
       /\ call.outcome = "returned" => (call.fate = "served" /\ Len(call.requests) = 1)

C8_Witness ==
    /\ call.op = "store_data"
    /\ call.fate = "failed"
    /\ call.outcome = "RemoteError"
    /\ Len(call.requests) = 1

\* C9: processing an uploaded JSON file whose parsed content is not a list shows
\* an error and calls nothing: no store_data invocation is made, the endpoint is
\* not written to, and documents_added keeps its value.
C9_NonArrayJsonRejected ==
    [][ \A f \in Uploads :
          (f.type = "application/json" /\ f.readable /\ f.content.type # "list"
               /\ process_file(f))
          => /\ call' = NoCall
             /\ server' = server
             /\ session_state'.documents_added = session_state.documents_added
             /\ shown'.level = "error" ]_vars

C9_Witness ==
    /\ shown = Message("error", "JSON-Datei muss ein Array von Strings enthalten.")
    /\ call = NoCall
    /\ session_state.connected
    /\ session_state.documents_added > 0
    /\ TotalDocs(server) < MaxDocs

\* the status a reply of run() carries, read from its fixed phrase
StatusOf(reply) ==
    IF reply.phrase \in { "Successfully stored {n} documents in ChromaDB.",
                          "Found {n} relevant documents:" }
    THEN "success"
    ELSE IF reply.phrase \in { "No documents found to store.",
                               "No documents found for query: '{query}'" }
    THEN "empty"
    ELSE IF reply.phrase \in { "Error processing request: {e}",
                               "Error: ChromaDB client is not initialized." }
    THEN "error"
    ELSE "none"

\* the last step was the agent's store branch calling store_data
AgentStored == call.op = "store_data"

\* the last step was the agent's query branch calling query_data
AgentQueried == call.op = "query_data" /\ call.args[2] = <<QueryNResults>>

AdminCalled == call.op \in {"store_data", "query_data", "show_all_data"}

\* C11: when the store_data, query_data or show_all_data call of an admin
\* handler fails, the handler shows an error message and the session state
\* (connected, chroma_client, documents_added) is what it was before the action.
C11_AdminFailureCaught ==
    [][ (AdminCalled' /\ call'.outcome # "returned")
        => /\ shown'.level = "error"
           /\ session_state' = session_state ]_vars

C11_Witness ==
    /\ call.op = "store_data"
    /\ call.outcome = "RemoteError"
    /\ shown.level = "error"
    /\ session_state.connected
    /\ session_state.documents_added > 0

\* C12: a failed connect attempt of "Verbinden" is shown as an error and leaves
\* the session state as it was: a session that was connected before the
\* attempt has the same connected flag and the same chroma_client after it.
C12_FailedVerbindenKeepsState ==
    [][ (call'.op = "connect" /\ call'.outcome # "returned")
        => /\ shown'.level = "error"
           /\ session_state'.connected = session_state.connected
           /\ session_state'.chroma_client = session_state.chroma_client ]_vars

\* C18: whenever session_state.connected is true, session_state.chroma_client
\* is a wrapper whose connect() has succeeded; no store, query or list call of
\* an admin handler finds a missing or unconnected wrapper; and while
\* session_state.connected is false the only wrapper call made is the connect
\* of "Verbinden".
C18_ConnectedMeansUsable ==
    [][ /\ session_state'.connected
           => /\ session_state'.chroma_client # None
              /\ wrappers'[session_state'.chroma_client.id].connection # None
        /\ AdminCalled' => call'.outcome \notin {"NotConnected", "AttributeError"}
        /\ ~session_state.connected => call'.op \in {"none", "connect"} ]_vars

C18_Witness ==
    /\ Len(wrappers) = MaxWrappers
    /\ wrappers[1].connection = None
    /\ session_state.connected
    /\ session_state.chroma_client = Ref(MaxWrappers)
    /\ call.op = "store_data"
    /\ call.outcome = "returned"

\* C14: store_data of one str s has the outcome of store_data of the list [s]:
\* one add request with the one document s and one identifier, not one document
\* per character; and a list is sent as it was passed, with every element,
\* the empty strings included, in order.
C14_StrIsOneDocument ==
    /\ \A w \in 1..Len(wrappers), t \in Texts, fate \in WriteFates :
           store_data_outcome(wrappers[w], server, PyStr(t), fate)
               = store_data_outcome(wrappers[w], server, PyList(<<t>>), fate)
    /\ (call.op = "store_data" /\ call.before.connection # None)
       => /\ IsStr(call.args[1])
             => /\ call.requests[1].documents = <<call.args[1].val>>
                /\ Len(call.requests[1].ids) = 1
          /\ ~IsStr(call.args[1])
             => call.requests[1].documents = call.args[1].val

C14_Witness ==
    /\ call.op = "store_data"
    /\ call.args[1] = PyStr(<<"a", "b">>)
    /\ call.outcome = "returned"
    /\ call.requests[1].documents = << <<"a", "b">> >>
    /\ \E i \in 1..Len(ItemsOf(server, "documents")) :
           ItemsOf(server, "documents")[i].document = <<>>

\* C19: a step changes session_state.documents_added exactly when it is a
\* store_data call that returned, and then by the number of documents of the
\* batch that was passed; and no admin action passes store_data an empty batch
\* or a document that is empty or only whitespace.
C19_CounterCountsStored ==
    [][ /\ session_state'.documents_added
            = session_state.documents_added
              + (IF call'.op = "store_data" /\ call'.outcome = "returned"
                 THEN Len(BatchOf(call'.args[1])) ELSE 0)
        /\ call'.op = "store_data"
           => /\ BatchOf(call'.args[1]) # <<>>
              /\ \A i \in 1..Len(BatchOf(call'.args[1])) :
                     strip(BatchOf(call'.args[1])[i]) # <<>> ]_vars

C19_Witness ==
    /\ call.op = "store_data"
    /\ call.outcome = "returned"
    /\ Len(BatchOf(call.args[1])) = 2
    /\ session_state.documents_added = 2
    /\ TotalDocs(server) = 3

\* the texts run() returns
RunTexts ==
    { "Error: ChromaDB client is not initialized.",
      "Successfully stored {n} documents in ChromaDB.",
      "No documents found to store.",
      "Found {n} relevant documents:",
      "No documents found for query: '{query}'",
      "{response.text}",
      "I received your message: '{user_query}'.",
      "Error processing request: {e}" }

\* the last step was the agent's general branch looking up context
AgentLookedUp == call.op = "query_data" /\ call.args[2] = <<ContextNResults>>

\* C15: every message sent to the agent is answered by one of the texts of
\* run(), whatever the wrapper call, the extraction or the LLM did; and in the
\* general branch a context lookup that failed is not answered by an error
\* text: the answer is the LLM's, given no context, or the fallback text.
C15_AlwaysAText ==
    [][ /\ call'.op # "connect" => response'.phrase \in RunTexts
        /\ (AgentLookedUp' /\ call'.outcome # "returned")
           => /\ response'.phrase \in { "{response.text}",
                                         "I received your message: '{user_query}'." }
              /\ response'.documents = <<>> ]_vars

C15_Witness ==
    /\ AgentLookedUp
    /\ call.outcome = "RemoteError"
    /\ response.phrase = "{response.text}"
    /\ TotalDocs(server) > 0

\* the last step was a message answered by an agent that has a client
AgentRan == user_message # None /\ call.op # "connect" /\ agent.chroma_client # None

\* C16: a message with a store keyword leads to store_data, called once with
\* the extracted documents, or to no call when none was extracted, and never
\* to query_data, also when it has a query keyword; a message with a query
\* keyword and no store keyword leads to one query_data with limit 5; any other
\* message leads to one query_data with limit 3 and never to store_data.
C16_OneBranch ==
    AgentRan
    => /\ Len(call.requests) <= 1
       /\ _is_store_request(user_message.val)
          => IF _extract_documents(user_message.val) = <<>>
             THEN call = NoCall
             ELSE /\ call.op = "store_data"
                  /\ call.args = <<PyList(_extract_documents(user_message.val))>>
       /\ (~_is_store_request(user_message.val) /\ _is_query_request(user_message.val))
          => /\ call.op = "query_data"
             /\ call.args[2] = <<QueryNResults>>
       /\ (~_is_store_request(user_message.val) /\ ~_is_query_request(user_message.val))
          => /\ call.op = "query_data"
             /\ call.args[2] = <<ContextNResults>>

C16_Witness ==
    /\ AgentRan
    /\ _is_store_request(user_message.val)
    /\ _is_query_request(user_message.val)
    /\ call.op = "store_data"
    /\ call.outcome = "returned"

\* the last run was one with "Initialize Agent" clicked
InitializeClicked ==
    shown.text \in {"Error initializing agent", "Agent initialized successfully!"}

\* C17: a run in which "Initialize Agent" is clicked, with chroma_connected true
\* and an API key entered, leaves in session_state.agent an agent whose client
\* is the wrapper in session_state.chroma_client, a wrapper that is connected.
C17_InitializeCreatesAgent ==
    [][ InitializeClicked'
        => /\ session_state'.agent # None
           /\ session_state'.agent.chroma_client = session_state'.chroma_client
           /\ session_state'.chroma_client # None
           /\ wrappers'[session_state'.chroma_client.id].connection # None ]_vars

\* the script threads that are inside a call of wrapper w
InFlightOn(w) == { s \in DOMAIN in_flight : in_flight[s] # None /\ in_flight[s].w = w }

====
